---- MODULE Spec2Model ----
(***************************************************************************)
(* SafeClawIntentBridge (skills/intent_tracker/safeclaw_integration.py).   *)
(*                                                                         *)
(* Python strings are sequences of Unicode code points, so that            *)
(* str.lower(), the substring test `in` and f-string formatting are        *)
(* computed rather than assumed.  Python's None is the value None below,   *)
(* which is no string (-1 is no code point).                               *)
(***************************************************************************)
EXTENDS Integers, Sequences, FiniteSets, TLC

VARIABLES projects, habits, op, text, project_result, habit_result, result, status

vars == <<projects, habits, op, text, project_result, habit_result, result, status>>

----------------------------------------------------------------------------
(* Bounds *)

MaxProjects == 2
MaxHabits == 2

----------------------------------------------------------------------------
(* Strings *)

None == <<-1>>

\* "Website Redesign", "learn piano"
WebsiteRedesign == <<87, 101, 98, 115, 105, 116, 101, 32, 82, 101, 100, 101, 115, 105, 103, 110>>
LearnPiano == <<108, 101, 97, 114, 110, 32, 112, 105, 97, 110, 111>>
\* "Planning", "Design", "Build", "Practice"
Planning == <<80, 108, 97, 110, 110, 105, 110, 103>>
Design == <<68, 101, 115, 105, 103, 110>>
Build == <<66, 117, 105, 108, 100>>
Practice == <<80, 114, 97, 99, 116, 105, 99, 101>>
\* "run", "read"
Run == <<114, 117, 110>>
Read == <<114, 101, 97, 100>>
\* "Got it!", "Logged!"
GotIt == <<71, 111, 116, 32, 105, 116, 33>>
Logged == <<76, 111, 103, 103, 101, 100, 33>>

\* str.lower() on one code point: A-Z map to a-z, the CJK code points of the
\* patterns have no case.
LowerChar(c) == IF c \in 65..90 THEN c + 32 ELSE c

lower(s) == [i \in 1..Len(s) |-> LowerChar(s[i])]

\* Python's `pattern in s` on strings: pattern occurs as a contiguous substring.
Contains(pattern, s) ==
    \E i \in 1..(Len(s) - Len(pattern) + 1) :
        SubSeq(s, i, i + Len(pattern) - 1) = pattern

\* Decimal rendering of a non-negative integer, as an f-string renders it.
RECURSIVE str(_)
str(n) == IF n < 10 THEN <<48 + n>> ELSE str(n \div 10) \o <<48 + (n % 10)>>

----------------------------------------------------------------------------
(* _is_casual_message *)

casual_patterns ==
    << <<22825, 27668>>,               \* tian qi   (weather)
       <<22312, 21527>>,               \* zai ma    (are you there)
       <<26368, 36817>>,               \* zui jin   (recently)
       <<20170, 22825>>,               \* jin tian  (today)
       <<20320, 22909>>,               \* ni hao    (hello)
       <<21704, 21872>>,               \* ha luo    (hello)
       <<104, 105>>,                   \* hi
       <<104, 101, 108, 108, 111>>,    \* hello
       <<104, 101, 121>> >>            \* hey

is_casual_message(t) ==
    LET text_lower == lower(t)
    IN  \E k \in 1..Len(casual_patterns) :
            Contains(lower(casual_patterns[k]), text_lower)

----------------------------------------------------------------------------
(* _generate_follow_up *)

\* Variant: the phase is always the first one (phases[0]).
generate_follow_up_first_phase(ps, hs) ==
    IF Len(ps) > 0
    THEN LET project == ps[1]
             phase_info == project.phases[1]
         IN  <<23545, 20102, 65292>> \o project.name
                \o <<36827, 23637, 24590, 20040, 26679, 21862, 65311>>
                \o phase_info.name
                \o <<38454, 27573, 26377, 20160, 20040, 38656, 35201, 24110,
                     24537, 30340, 21527, 65311>>
    ELSE IF Len(hs) > 0
    THEN LET habit == hs[1]
         IN  habit.name \o <<36830, 32493>> \o str(habit.streak)
                \o <<22825, 20102, 65281, 20170, 22825, 20570, 20102, 21527, 65311>>
    ELSE None

\* Variant: the habits are looked at before the projects.
generate_follow_up_habits_first(ps, hs) ==
    IF Len(hs) > 0
    THEN LET habit == hs[1]
         IN  habit.name \o <<36830, 32493>> \o str(habit.streak)
                \o <<22825, 20102, 65281, 20170, 22825, 20570, 20102, 21527, 65311>>
    ELSE IF Len(ps) > 0
    THEN LET project == ps[1]
             phase_info == project.phases[project.current_phase + 1]
         IN  <<23545, 20102, 65292>> \o project.name
                \o <<36827, 23637, 24590, 20040, 26679, 21862, 65311>>
                \o phase_info.name
                \o <<38454, 27573, 26377, 20160, 20040, 38656, 35201, 24110,
                     24537, 30340, 21527, 65311>>
    ELSE None

generate_follow_up(ps, hs) ==
    IF Len(ps) > 0
    THEN LET project == ps[1]
             phase_info == project.phases[project.current_phase + 1]
         IN  <<23545, 20102, 65292>> \o project.name
                \o <<36827, 23637, 24590, 20040, 26679, 21862, 65311>>
                \o phase_info.name
                \o <<38454, 27573, 26377, 20160, 20040, 38656, 35201, 24110,
                     24537, 30340, 21527, 65311>>
    ELSE IF Len(hs) > 0
    THEN LET habit == hs[1]
         IN  habit.name \o <<36830, 32493>> \o str(habit.streak)
                \o <<22825, 20102, 65281, 20170, 22825, 20570, 20102, 21527, 65311>>
    ELSE None

----------------------------------------------------------------------------
(* detect_and_track *)

\* Python truthiness of an optional string: None and "" are falsy.
Truthy(s) == s # None /\ s # <<>>

\* Variant: the habit check is an `elif` of the project check.
detect_and_track_elif(t, pr, hr, ps, hs) ==
    LET r0 == [action |-> "none", message |-> None]
        r2 == IF pr.action \in {"create_project", "update_progress"}
              THEN [action |-> pr.action, message |-> pr.response]
              ELSE IF hr.action \in {"create_habit", "log_habit"}
              THEN [action |-> hr.action, message |-> hr.response]
              ELSE r0
        follow_up == generate_follow_up(ps, hs)
    IN  IF r2.message = None /\ is_casual_message(t) /\ Truthy(follow_up)
        THEN [action |-> "follow_up", message |-> follow_up]
        ELSE r2

\* Variant: update_progress is missing from the project actions.
detect_and_track_create_only(t, pr, hr, ps, hs) ==
    LET r0 == [action |-> "none", message |-> None]
        r1 == IF pr.action \in {"create_project"}
              THEN [action |-> pr.action, message |-> pr.response]
              ELSE r0
        r2 == IF hr.action \in {"create_habit", "log_habit"}
              THEN [action |-> hr.action, message |-> hr.response]
              ELSE r1
        follow_up == generate_follow_up(ps, hs)
    IN  IF r2.message = None /\ is_casual_message(t) /\ Truthy(follow_up)
        THEN [action |-> "follow_up", message |-> follow_up]
        ELSE r2

\* Variant: `or` for `and` in the follow-up condition.
detect_and_track_or(t, pr, hr, ps, hs) ==
    LET r0 == [action |-> "none", message |-> None]
        r1 == IF pr.action \in {"create_project", "update_progress"}
              THEN [action |-> pr.action, message |-> pr.response]
              ELSE r0
        r2 == IF hr.action \in {"create_habit", "log_habit"}
              THEN [action |-> hr.action, message |-> hr.response]
              ELSE r1
        follow_up == generate_follow_up(ps, hs)
    IN  IF (r2.message = None \/ is_casual_message(t)) /\ Truthy(follow_up)
        THEN [action |-> "follow_up", message |-> follow_up]
        ELSE r2

\* Variant: `not result["message"]` for `result["message"] is None`.
detect_and_track_falsy(t, pr, hr, ps, hs) ==
    LET r0 == [action |-> "none", message |-> None]
        r1 == IF pr.action \in {"create_project", "update_progress"}
              THEN [action |-> pr.action, message |-> pr.response]
              ELSE r0
        r2 == IF hr.action \in {"create_habit", "log_habit"}
              THEN [action |-> hr.action, message |-> hr.response]
              ELSE r1
        follow_up == generate_follow_up(ps, hs)
    IN  IF ~Truthy(r2.message) /\ is_casual_message(t) /\ Truthy(follow_up)
        THEN [action |-> "follow_up", message |-> follow_up]
        ELSE r2

detect_and_track(t, pr, hr, ps, hs) ==
    LET r0 == [action |-> "none", message |-> None]
        r1 == IF pr.action \in {"create_project", "update_progress"}
              THEN [action |-> pr.action, message |-> pr.response]
              ELSE r0
        r2 == IF hr.action \in {"create_habit", "log_habit"}
              THEN [action |-> hr.action, message |-> hr.response]
              ELSE r1
        follow_up == generate_follow_up(ps, hs)
    IN  IF r2.message = None /\ is_casual_message(t) /\ Truthy(follow_up)
        THEN [action |-> "follow_up", message |-> follow_up]
        ELSE r2

----------------------------------------------------------------------------
(* get_status *)

\* Variant: the progress numerator is current_phase, not current_phase + 1.
get_status_zero_based(ps, hs) ==
    [ active_projects |-> Len(ps),
      active_habits   |-> Len(hs),
      projects |-> [i \in 1..Len(ps) |->
                      [ name     |-> ps[i].name,
                        phase    |-> ps[i].phases[ps[i].current_phase + 1].name,
                        progress |-> str(ps[i].current_phase) \o <<47>>
                                        \o str(Len(ps[i].phases)) ]],
      habits   |-> [i \in 1..Len(hs) |->
                      [ name   |-> hs[i].name,
                        streak |-> hs[i].streak,
                        total  |-> hs[i].total ]] ]

get_status(ps, hs) ==
    [ active_projects |-> Len(ps),
      active_habits   |-> Len(hs),
      projects |-> [i \in 1..Len(ps) |->
                      [ name     |-> ps[i].name,
                        phase    |-> ps[i].phases[ps[i].current_phase + 1].name,
                        progress |-> str(ps[i].current_phase + 1) \o <<47>>
                                        \o str(Len(ps[i].phases)) ]],
      habits   |-> [i \in 1..Len(hs) |->
                      [ name   |-> hs[i].name,
                        streak |-> hs[i].streak,
                        total  |-> hs[i].total ]] ]

----------------------------------------------------------------------------
(* Collaborators: project_tracker.ProjectAwareAssistant and                *)
(* habit_tracker.HabitAwareAssistant.  The bridge reads their stores and   *)
(* their answers; it holds no reference through which it writes to them.   *)

Phase(n) == [name |-> n]

\* Project{name, phases, current_phase}: current_phase is a valid 0-based
\* index into phases.
Project ==
    { [name |-> WebsiteRedesign, current_phase |-> 0,
       phases |-> <<Phase(Planning), Phase(Design), Phase(Build)>>],
      [name |-> WebsiteRedesign, current_phase |-> 1,
       phases |-> <<Phase(Planning), Phase(Design), Phase(Build)>>],
      [name |-> LearnPiano, current_phase |-> 0,
       phases |-> <<Phase(Practice)>>] }

\* Habit{name, streak, total}
Habit ==
    { [name |-> Run,  streak |-> 0,  total |-> 0],
      [name |-> Run,  streak |-> 12, total |-> 30],
      [name |-> Read, streak |-> 1,  total |-> 4] }

UniqueNames(s) == \A i, j \in DOMAIN s : i # j => s[i].name # s[j].name

\* project_manager.get_pending_projects(): an ordered sequence of projects
PendingProjects ==
    { s \in UNION { [1..n -> Project] : n \in 0..MaxProjects } : UniqueNames(s) }

\* habit_manager.get_active_habits(): an ordered sequence of habits
ActiveHabits ==
    { s \in UNION { [1..n -> Habit] : n \in 0..MaxHabits } : UniqueNames(s) }

\* project_assistant.process_message(text): {action, response}, the response
\* a string or None.
ProjectAnswers ==
    { [action |-> "none", response |-> None],
      [action |-> "list_projects", response |-> GotIt],
      [action |-> "create_project", response |-> None],
      [action |-> "create_project", response |-> <<>>],
      [action |-> "create_project", response |-> GotIt],
      [action |-> "update_progress", response |-> GotIt] }

\* habit_assistant.process_message(text)
HabitAnswers ==
    { [action |-> "none", response |-> None],
      [action |-> "list_habits", response |-> Logged],
      [action |-> "create_habit", response |-> Logged],
      [action |-> "log_habit", response |-> None],
      [action |-> "log_habit", response |-> <<>>],
      [action |-> "log_habit", response |-> Logged] }

----------------------------------------------------------------------------
(* Inputs *)

Texts ==
    { <<>>,                                             \* ""
      <<104, 105>>,                                     \* "hi"
      <<84, 72, 73, 83>>,                               \* "THIS"
      <<20320, 22909>>,                                 \* ni hao
      <<99, 114, 101, 97, 116, 101, 32, 112, 114, 111, 106, 101, 99, 116, 58, 32,
        108, 101, 97, 114, 110, 32, 112, 105, 97, 110, 111>> }  \* "create project: learn piano"

----------------------------------------------------------------------------
(* State machine *)

NoAnswer == [action |-> "none", response |-> None]
NoResult == [action |-> "none", message |-> None]
NoStatus == [active_projects |-> 0, active_habits |-> 0, projects |-> <<>>, habits |-> <<>>]

\* __init__: the collaborators are constructed with whatever they have stored.
Init ==
    /\ projects \in PendingProjects
    /\ habits \in ActiveHabits
    /\ op = "init"
    /\ text = <<>>
    /\ project_result = NoAnswer
    /\ habit_result = NoAnswer
    /\ result = NoResult
    /\ status = NoStatus

DetectAndTrack ==
    \E t \in Texts, pr \in ProjectAnswers, hr \in HabitAnswers :
        /\ op' = "detect_and_track"
        /\ text' = t
        /\ project_result' = pr
        /\ habit_result' = hr
        /\ result' = detect_and_track(t, pr, hr, projects, habits)
        /\ status' = NoStatus
        /\ UNCHANGED <<projects, habits>>

\* Variant: the snapshot is built by popping the pending projects.
GetStatusPops ==
    /\ op' = "get_status"
    /\ status' = get_status(projects, habits)
    /\ text' = <<>>
    /\ project_result' = NoAnswer
    /\ habit_result' = NoAnswer
    /\ result' = NoResult
    /\ projects' = <<>>
    /\ UNCHANGED habits

GetStatus ==
    /\ op' = "get_status"
    /\ status' = get_status(projects, habits)
    /\ text' = <<>>
    /\ project_result' = NoAnswer
    /\ habit_result' = NoAnswer
    /\ result' = NoResult
    /\ UNCHANGED <<projects, habits>>

Next == DetectAndTrack \/ GetStatus

Spec == Init /\ [][Next]_vars

----------------------------------------------------------------------------
(* Properties *)

Called == op = "detect_and_track"

ProjectMatched == project_result.action \in {"create_project", "update_progress"}
HabitMatched == habit_result.action \in {"create_habit", "log_habit"}

ProjectOutcome == [action |-> project_result.action, message |-> project_result.response]
HabitOutcome == [action |-> habit_result.action, message |-> habit_result.response]

\* The message steps 1-2 leave behind.
StepsMessage ==
    IF HabitMatched THEN habit_result.response
    ELSE IF ProjectMatched THEN project_result.response
    ELSE None

Casual == is_casual_message(text)

ItemPending == Len(projects) > 0 \/ Len(habits) > 0

Mentions(s) == Contains(s, result.message)

\* The digits of a decimal numeral, read back as a number.
RECURSIVE ParseInt(_)
ParseInt(d) ==
    IF Len(d) = 0 THEN 0
    ELSE 10 * ParseInt(SubSeq(d, 1, Len(d) - 1)) + (d[Len(d)] - 48)

Slash(s) == CHOOSE k \in 1..Len(s) : s[k] = 47
Numerator(s) == ParseInt(SubSeq(s, 1, Slash(s) - 1))
Denominator(s) == ParseInt(SubSeq(s, Slash(s) + 1, Len(s)))

C2_ProjectDominates ==
    (Called /\ ProjectMatched /\ HabitMatched) => result = ProjectOutcome

\* C3: the returned message is non-null if and only if the returned action
\* is not "none".
C3_MessageIffAction ==
    Called => (result.message # None <=> result.action # "none")

C5_CasualFollowUp ==
    (Called /\ Casual /\ Len(projects) > 0) =>
        /\ result.action = "follow_up"
        /\ Mentions(projects[1].name)
        /\ Mentions(projects[1].phases[projects[1].current_phase + 1].name)

\* C5 (amended): a casual text with a pending project gets a follow-up that
\* names the first pending project and its current phase, provided steps 1-2
\* left a null message; active habits do not change that.
C5_CasualFollowUpIfNoMessage ==
    (Called /\ Casual /\ Len(projects) > 0 /\ StepsMessage = None) =>
        /\ result.action = "follow_up"
        /\ Mentions(projects[1].name)
        /\ Mentions(projects[1].phases[projects[1].current_phase + 1].name)
        /\ \A j \in DOMAIN habits : ~Mentions(habits[j].name)

C5_Witness ==
    /\ Called /\ Casual /\ StepsMessage = None
    /\ Len(projects) > 0 /\ Len(habits) > 0
    /\ projects[1].name = WebsiteRedesign /\ projects[1].current_phase = 1
    /\ result.action = "follow_up"
    /\ Mentions(Design)

\* C6: with no matching action and no casual marker in the text the result is
\* {action: none, message: null}, whatever is pending.
C6_NothingDetected ==
    (Called /\ ~ProjectMatched /\ ~HabitMatched /\ ~Casual) =>
        result = [action |-> "none", message |-> None]

C6_Witness ==
    /\ Called /\ ~Casual /\ Len(text) > 0
    /\ project_result.action = "list_projects"
    /\ habit_result.action = "list_habits"
    /\ Len(projects) > 0 /\ Len(habits) > 0
    /\ result.action = "none" /\ result.message = None

\* C7: the follow-up is about the first pending project if there is one,
\* otherwise about the first active habit and its streak, and there is none
\* exactly when nothing is pending and nothing is active.
C7_FollowUpTieBreak ==
    (Called /\ Casual /\ StepsMessage = None) =>
        /\ Len(projects) > 0 =>
              /\ result.action = "follow_up"
              /\ Mentions(projects[1].name)
              /\ \A i \in 2..Len(projects) : ~Mentions(projects[i].name)
              /\ \A j \in DOMAIN habits : ~Mentions(habits[j].name)
        /\ (Len(projects) = 0 /\ Len(habits) > 0) =>
              /\ result.action = "follow_up"
              /\ Mentions(habits[1].name \o <<36830, 32493>> \o str(habits[1].streak))
              /\ \A j \in 2..Len(habits) : ~Mentions(habits[j].name)
        /\ (result.action # "follow_up") <=> (Len(projects) = 0 /\ Len(habits) = 0)

C7_Witness ==
    /\ Called /\ Casual /\ StepsMessage = None
    /\ Len(projects) = 0 /\ Len(habits) = 2
    /\ habits[1].streak = 12
    /\ result.action = "follow_up"
    /\ Mentions(<<49, 50>>)

\* C8: the snapshot's counts are the lengths of its lists, it has one entry
\* per pending project and active habit in the collaborators' order, and a
\* project's progress reads current_phase + 1 out of the number of phases.
C8_StatusSnapshot ==
    op = "get_status" =>
        /\ status.active_projects = Len(status.projects)
        /\ status.active_habits = Len(status.habits)
        /\ Len(status.projects) = Len(projects)
        /\ Len(status.habits) = Len(habits)
        /\ \A i \in DOMAIN projects :
              /\ status.projects[i].name = projects[i].name
              /\ status.projects[i].phase =
                    projects[i].phases[projects[i].current_phase + 1].name
              /\ Numerator(status.projects[i].progress) = projects[i].current_phase + 1
              /\ Denominator(status.projects[i].progress) = Len(projects[i].phases)
        /\ \A j \in DOMAIN habits :
              /\ status.habits[j].name = habits[j].name
              /\ status.habits[j].streak = habits[j].streak
              /\ status.habits[j].total = habits[j].total
        /\ (Len(projects) = 0 /\ Len(habits) = 0) =>
              status = [active_projects |-> 0, active_habits |-> 0,
                        projects |-> <<>>, habits |-> <<>>]

C8_Witness ==
    /\ op = "get_status"
    /\ Len(projects) = 2 /\ Len(habits) = 2
    /\ projects[2].current_phase = 1
    /\ status.projects[2].progress = <<50, 47, 51>>
    /\ status.habits[1].streak = 12 /\ status.habits[1].total = 30

C10_FollowUpIff ==
    Called =>
        /\ (result.action = "follow_up") <=>
              (StepsMessage = None /\ Casual /\ ItemPending)
        /\ StepsMessage # None => result.message = StepsMessage

C10_Witness ==
    /\ Called /\ Casual /\ ItemPending
    /\ project_result = [action |-> "create_project", response |-> None]
    /\ habit_result.action = "none"
    /\ result.action = "follow_up"

====
